---- MODULE Spec2Model ----
(***************************************************************************)
(* Model of the WhatsApp <-> Claude Code bridge.                           *)
(*                                                                         *)
(*  Part I   the agent process orchestrator of src/src/claude-code.ts      *)
(*           (lines 1-365): per-chat busy flag, FIFO queue, session store, *)
(*           child process 'error' / 'close' handlers, hard timeout.       *)
(*  Part II  the transport connection state machine of the same file       *)
(*           (lines 367-738): connect, connection.update, reconnect timer, *)
(*           shutdown; and the message router on top of both.              *)
(*                                                                         *)
(* Node runs every handler to completion on one event loop, so a handler   *)
(* is one atomic action up to its first `await`; the code after an `await` *)
(* is a separate action.                                                   *)
(***************************************************************************)
EXTENDS Integers, Sequences, FiniteSets, TLC

\* ------------------------------------------------------------------ bounds
\* Every map of the orchestrator is keyed by chatId and every handler reads and
\* writes only the entries of its own chatId, so one chat carries all of the
\* per-conversation behaviour; the router reaches a second one, the @lid one.
allowedJid == "a"       \* `${allowedPhone}@s.whatsapp.net`
SelfLid == "me@lid"     \* the account's @lid JID
Chats == {allowedJid, SelfLid}
OrchChats == {allowedJid}   \* the conversation the orchestrator runs alone
\* keys of the session map: a chatId, or the index key that Object.entries
\* gives for a file that holds a JSON string
Keys == Chats \cup {"0"}
MaxReq == 3             \* sendMessage calls in a run
MaxFwd == 2             \* messages forwarded by the router in a run
MaxCmds == 1            \* command replies in a run
ProjectDirs == {"d0", "d1"}

None == "none"          \* an absent Map entry / undefined

\* transport
MaxGen == 12            \* connection attempts in a run

MAX_440_RETRIES == 10
STABLE_CONNECTION_RESET_MS == 20000
LoggedOut == 401        \* DisconnectReason.loggedOut
Replaced == 440
Generic == 428          \* any other status code
StatusCodes == {LoggedOut, Replaced, Generic}
OpenedAt == 1000        \* Date.now() at an 'open'
\* Date.now() at a 'close': just under, and exactly, the stability threshold
\* after the open.
CloseTimes == {OpenedAt + STABLE_CONNECTION_RESET_MS - 1,
               OpenedAt + STABLE_CONNECTION_RESET_MS}
Lids == {None, "me:5@lid"}   \* nextSocket.user?.lid

\* -------------------------------------------------------------------- state
VARIABLES
  \* the orchestrator
  sessions,     \* Map chatId -> sessionId           (None = no entry)
  disk,         \* Object.entries of what SESSIONS_FILE holds (None = no entry)
  fileKind,     \* what SESSIONS_FILE is: absent, unparsable, null, string, object
  busy,         \* Map chatId -> boolean
  queues,       \* Map chatId -> QueuedMessage[]     (<<>> = no entry / empty)
  items,        \* every QueuedMessage ever created, in submission order
  procs,        \* every child process ever spawned, in spawn order
  projectDir,   \* cwd of the next spawn
  \* history of the reset commands
  cleared,      \* chatId -> a reset command ran since the last sendMessage
  mustBeFresh,  \* the items that were the first sent after a reset command
  \* history of the closes
  replaced440,  \* replaced-session closes since reconnectAttempts was last 0
  skipped,      \* a connect() call found an attempt in flight and returned it
  \* history of the router
  outbox,       \* the safeSend calls made: command replies, replies to requests
  dropped,      \* an incoming message was discarded
  \* the transport
  started,           \* startWhatsApp has been called
  sock,              \* the owned socket (its id), 0 = null
  isSocketOpen,
  reconnectAttempts,
  reconnectTimer,    \* the pending timer's delay in ms, 0 = null
  timers,            \* reconnect timers armed and neither cancelled nor expired
  activeConnect,     \* the generation of the connect body in flight, 0 = null
  shuttingDown,
  socketGeneration,
  lastOpenAt,
  selfLid,
  authDir,           \* AUTH_DIR exists (the persisted credentials)
  phase,             \* of the socket made last: none, connecting, open, closed, ended
  suspended,         \* socket id whose loggedOut handler awaits import('fs'), 0 = none
  staleFrom,         \* a torn down socket with an event still in flight, 0 = none
  halted             \* the "Stopping reconnect loop" branch has run

orchVars == <<sessions, disk, fileKind, busy, queues, items, procs, projectDir>>
orchHist == <<cleared, mustBeFresh>>
connHist == <<replaced440, skipped>>
routerHist == <<outbox, dropped>>
histVars == <<orchHist, connHist, routerHist>>
connVars == <<started, sock, isSocketOpen, reconnectAttempts, reconnectTimer,
              timers, activeConnect, shuttingDown, socketGeneration, lastOpenAt, selfLid,
              authDir, phase, suspended, staleFrom, halted>>
vars == <<orchVars, histVars, connVars>>

\* ------------------------------------------------------------ child output
\* Text is a sequence of lines.  The lines a child can print:
ResultLine1 == "{type:result,result:hi,session_id:s1}"
ResultLine2 == "{type:result,result:yo,session_id:s2}"
ResultNoSid == "{type:result,result:ok}"
SystemLine  == "{type:system}"
PlainLine   == "plain text"

Stdouts ==
  { <<>>,
    <<PlainLine>>,
    <<ResultLine1>>,
    <<SystemLine, ResultLine2>>,
    <<ResultNoSid>> }

InUseErr == "Error: session id s1 is already in use"
Stderrs == {"", InUseErr}

ExitCodes == {0, 1}     \* exit code of a process that ran
SpawnFailCode == 0 - 2  \* 'close' code of a process that could not be spawned

ExitMsg(code) ==
  IF code = 1 THEN "Process exited with code 1"
  ELSE IF code = SpawnFailCode THEN "Process exited with code -2"
  ELSE "Process exited with code 0"

NotFoundMsg == "Claude Code CLI not found."
SpawnErrMsg == "spawn EAGAIN"
TimeoutMsg  == "Claude Code timed out after 4 hours."
NoResponseMsg == "No response from Claude CLI"

\* More that a child can print: a blank line, and a line of plain text
\* longer than the 2000 characters of the raw fallback.
BlankLine == " "
LongLine == "plain text, 2500 characters"
LongLineCut == "plain text, 2500 characters: the first 2000"
RawStdouts == Stdouts \cup {<<BlankLine>>, <<LongLine>>}

\* stdout.trim(): the blank lines at both ends are gone.
RECURSIVE trimOut(_)
trimOut(stdout) ==
  IF stdout = <<>> THEN <<>>
  ELSE IF Head(stdout) = BlankLine \/ Head(stdout) = "" THEN trimOut(Tail(stdout))
  ELSE IF stdout[Len(stdout)] = BlankLine \/ stdout[Len(stdout)] = ""
       THEN trimOut(SubSeq(stdout, 1, Len(stdout) - 1))
  ELSE stdout

\* A result record printed over two lines: neither line parses, the two
\* together do.
PrettyOpen  == "{type:result,result:hi,"
PrettyClose == "session_id:s1}"

\* Every output of up to MaxLines lines.
MaxLines == 3
Lines == {ResultLine1, ResultLine2, ResultNoSid, SystemLine, PlainLine,
          BlankLine, PrettyOpen, PrettyClose}
ParseStdouts == UNION {[1..n -> Lines] : n \in 0..MaxLines}

\* JSON.parse of one line: the fields parseOutput reads.
JSONparse(line) ==
  CASE line = ResultLine1 -> [ok |-> TRUE, type |-> "result", result |-> "hi", session_id |-> "s1"]
    [] line = ResultLine2 -> [ok |-> TRUE, type |-> "result", result |-> "yo", session_id |-> "s2"]
    [] line = ResultNoSid -> [ok |-> TRUE, type |-> "result", result |-> "ok", session_id |-> ""]
    [] line = SystemLine  -> [ok |-> TRUE, type |-> "system", result |-> "", session_id |-> ""]
    [] OTHER              -> [ok |-> FALSE, type |-> "", result |-> "", session_id |-> ""]

\* JSON.parse of the whole trimmed output: white space between the tokens
\* does not count, one value parses, two values do not.
notBlank(line) == line # BlankLine /\ line # ""

JSONparseAll(lines) ==
  LET t == SelectSeq(lines, notBlank)
  IN IF Len(t) = 1 THEN JSONparse(t[1])
     ELSE IF t = <<PrettyOpen, PrettyClose>> THEN JSONparse(ResultLine1)
     ELSE JSONparse(PlainLine)

\* (a bug: the scan stops at the first result record from the top)
RECURSIVE firstResultFrom(_, _)
firstResultFrom(lines, i) ==
  IF i > Len(lines) THEN 0
  ELSE IF JSONparse(lines[i]).ok /\ JSONparse(lines[i]).type = "result"
       THEN i
       ELSE firstResultFrom(lines, i + 1)

lastResultIndex_First(lines, i) == firstResultFrom(lines, 1)

\* Index of the last line that parses as a record of type 'result', 0 if none.
RECURSIVE lastResultIndex(_, _)
lastResultIndex(lines, i) ==
  IF i = 0 THEN 0
  ELSE IF notBlank(lines[i]) /\ JSONparse(lines[i]).ok /\ JSONparse(lines[i]).type = "result"
       THEN i
       ELSE lastResultIndex(lines, i - 1)

\* parseOutput: [ok, result, session_id]; ok = FALSE is the thrown error.
parseOutput(stdout) ==
  LET lines == trimOut(stdout)
      i == lastResultIndex(lines, Len(lines))
      parsed == JSONparseAll(lines)
  IN IF i > 0
     THEN [ok |-> TRUE, result |-> JSONparse(lines[i]).result,
           session_id |-> JSONparse(lines[i]).session_id]
     ELSE IF parsed.ok
          THEN [ok |-> TRUE,
                result |-> IF parsed.result # "" THEN parsed.result ELSE lines[1],
                session_id |-> parsed.session_id]
          ELSE [ok |-> FALSE, result |-> "", session_id |-> ""]

\* /session id .* is already in use/i over the messages above
isSessionInUseError(errMsg) == errMsg = InUseErr

\* ------------------------------------------------------------ session store
Truthy(s) == s # None /\ s # ""

\* the token values a result record can carry that `if (result.session_id)`
\* lets through: a session id, a blank string, a JSON number
NumberToken == "<number 7>"
AcceptedTokens == {"s1", " ", NumberToken}
FileKinds == {"absent", "unparsable", "null", "string", "object"}
NoSessions == [k \in Keys |-> None]

\* typeof sessionId === 'string', sessionId.trim()
isString(v) == v # NumberToken
trimToken(v) == IF v = " " THEN "" ELSE v

\* JSON.stringify(Object.fromEntries(sessions.entries())) written to the file
saveSessionsToDisk(S) == [S EXCEPT !.disk = S.sessions, !.fileKind = "object"]

\* loadSessionsFromDisk: existsSync, JSON.parse, sessions.clear(), then the
\* entries that are non-blank strings; a throw leaves what was done before it.
loadSessionsFromDisk(S) ==
  IF S.fileKind = "absent" THEN S
  ELSE IF S.fileKind = "unparsable" THEN S
  ELSE IF S.fileKind = "null" THEN [S EXCEPT !.sessions = NoSessions]
  ELSE [S EXCEPT !.sessions =
          [k \in Keys |-> IF /\ S.disk[k] # None
                             /\ isString(S.disk[k])
                             /\ trimToken(S.disk[k]) # ""
                          THEN S.disk[k] ELSE None]]

setSession(S, chatId, sessionId) ==
  saveSessionsToDisk([S EXCEPT !.sessions[chatId] = sessionId])

removeSession(S, chatId) ==
  IF S.sessions[chatId] = None THEN S
  ELSE saveSessionsToDisk([S EXCEPT !.sessions[chatId] = None])

\* ------------------------------------------------------------- orchestrator
\* The handlers are written as functions of the orchestrator state record S.
Cur ==
  [sessions |-> sessions, disk |-> disk, fileKind |-> fileKind,
   busy |-> busy, queues |-> queues,
   items |-> items, procs |-> procs, projectDir |-> projectDir]

Commit(S) ==
  /\ sessions' = S.sessions
  /\ disk' = S.disk
  /\ fileKind' = S.fileKind
  /\ busy' = S.busy
  /\ queues' = S.queues
  /\ items' = S.items
  /\ procs' = S.procs
  /\ projectDir' = S.projectDir

Pending == [st |-> "pending", text |-> ""]

\* A promise is settled by the first resolve / reject; later calls are no-ops.
settle(S, r, how, text) ==
  IF S.items[r].outcome.st = "pending"
  THEN [S EXCEPT !.items[r].outcome = [st |-> how, text |-> text]]
  ELSE S

\* (a bug: the stored token is never passed on)
buildArgs_NoResume(S, chatId) == [resume |-> None]

buildArgs(S, chatId) ==
  [resume |-> IF Truthy(S.sessions[chatId]) THEN S.sessions[chatId] ELSE None]

processMessage(S, chatId, r) ==
  LET S1 == [S EXCEPT !.busy[chatId] = TRUE]
      proc == [chatId |-> chatId, item |-> r,
               resume |-> buildArgs(S1, chatId).resume,
               timedOut |-> FALSE, timer |-> TRUE, st |-> "running"]
  IN [S1 EXCEPT !.procs = Append(@, proc)]

\* (a bug: the next request is not started)
drainQueue_Skip(S, chatId) == S

drainQueue(S, chatId) ==
  IF S.queues[chatId] = <<>> THEN S
  ELSE processMessage([S EXCEPT !.queues[chatId] = Tail(@)], chatId,
                      Head(S.queues[chatId]))

\* (a bug: a request is queued although nothing is running)
sendMessageOn_QueuesWhenIdle(S, chatId) ==
  LET r == Len(S.items) + 1
      item == [chatId |-> chatId, sessionRecoveryTried |-> FALSE,
               outcome |-> Pending]
      S1 == [S EXCEPT !.items = Append(@, item)]
  IN IF S1.busy[chatId] \/ S1.procs # <<>>
     THEN [S1 EXCEPT !.queues[chatId] = Append(@, r)]
     ELSE processMessage(S1, chatId, r)

sendMessageOn(S, chatId) ==
  LET r == Len(S.items) + 1
      item == [chatId |-> chatId, sessionRecoveryTried |-> FALSE,
               outcome |-> Pending]
      S1 == [S EXCEPT !.items = Append(@, item)]
  IN IF S1.busy[chatId]
     THEN [S1 EXCEPT !.queues[chatId] = Append(@, r)]
     ELSE processMessage(S1, chatId, r)

\* text.slice(0, 2000)
slice2000(text) == IF text = LongLine THEN LongLineCut ELSE text

\* The text of the lines, with the line ends between them.
RECURSIVE joinLines(_)
joinLines(lines) ==
  IF Len(lines) = 1 THEN lines[1]
  ELSE lines[1] \o "\n" \o joinLines(Tail(lines))

\* (a bug: the raw fallback is not cut)
rawReply_NoCut(stdout) == joinLines(trimOut(stdout))

\* stdout.trim().slice(0, 2000)
rawReply(stdout) == slice2000(joinLines(trimOut(stdout)))

\* proc.on('error')
onError(S, p, enoent) ==
  LET chatId == S.procs[p].chatId
      r == S.procs[p].item
      S1 == [S EXCEPT !.procs[p].timer = FALSE, !.procs[p].st = "errored",
                      !.busy[chatId] = FALSE]
      S2 == settle(S1, r, "rejected", IF enoent THEN NotFoundMsg ELSE SpawnErrMsg)
  IN drainQueue(S2, chatId)

\* (a bug: the retry neither marks the request nor clears the token)
recoverSession_NoBookkeeping(S, chatId, r) == processMessage(S, chatId, r)

\* (a bug: the retry is spawned before the token is cleared)
recoverSession_SpawnFirst(S, chatId, r) ==
  removeSession(
    processMessage([S EXCEPT !.items[r].sessionRecoveryTried = TRUE], chatId, r),
    chatId)

\* The contention retry of the 'close' handler.
recoverSession(S, chatId, r) ==
  processMessage(
    removeSession([S EXCEPT !.items[r].sessionRecoveryTried = TRUE], chatId),
    chatId, r)

\* (a bug: a timed-out request with a token on file takes the contention retry)
timedOutClose_Retries(S, chatId, r) ==
  IF S.sessions[chatId] # None /\ ~S.items[r].sessionRecoveryTried
  THEN recoverSession(S, chatId, r)
  ELSE drainQueue(settle([S EXCEPT !.busy[chatId] = FALSE], r, "rejected", TimeoutMsg), chatId)

\* proc.on('close'), the branch of `if (timedOut)`
timedOutClose(S, chatId, r) ==
  drainQueue(settle([S EXCEPT !.busy[chatId] = FALSE], r, "rejected", TimeoutMsg), chatId)

\* proc.on('close')
onClose(S, p, code, stdout, stderr) ==
  LET chatId == S.procs[p].chatId
      r == S.procs[p].item
      S0 == [S EXCEPT !.procs[p] = [@ EXCEPT !.timer = FALSE, !.st = "closed",
                                             !.resume = None, !.timedOut = FALSE]]
      errMsg == IF stderr # "" THEN stderr ELSE ExitMsg(code)
      result == parseOutput(stdout)
  IN IF S.procs[p].timedOut
     THEN timedOutClose(S0, chatId, r)
     ELSE IF code # 0
     THEN IF /\ isSessionInUseError(errMsg)
             /\ S0.sessions[chatId] # None
             /\ ~S0.items[r].sessionRecoveryTried
          THEN recoverSession(S0, chatId, r)
          ELSE drainQueue(settle([S0 EXCEPT !.busy[chatId] = FALSE], r, "rejected", errMsg), chatId)
     ELSE IF result.ok
     THEN LET S1 == IF result.session_id # ""
                    THEN setSession(S0, chatId, result.session_id) ELSE S0
          IN drainQueue(settle([S1 EXCEPT !.busy[chatId] = FALSE], r, "resolved", result.result), chatId)
     ELSE IF trimOut(stdout) # <<>>
          THEN drainQueue(settle([S0 EXCEPT !.busy[chatId] = FALSE], r, "resolved", rawReply(stdout)), chatId)
          ELSE drainQueue(settle([S0 EXCEPT !.busy[chatId] = FALSE], r, "rejected", NoResponseMsg), chatId)

\* =============================================================== transport
CurConn ==
  [sock |-> sock, isSocketOpen |-> isSocketOpen,
   reconnectAttempts |-> reconnectAttempts, reconnectTimer |-> reconnectTimer,
   timers |-> timers,
   activeConnect |-> activeConnect, shuttingDown |-> shuttingDown,
   socketGeneration |-> socketGeneration, lastOpenAt |-> lastOpenAt,
   selfLid |-> selfLid, authDir |-> authDir, phase |-> phase,
   suspended |-> suspended, staleFrom |-> staleFrom, halted |-> halted]

CommitConn(K) ==
  /\ sock' = K.sock
  /\ isSocketOpen' = K.isSocketOpen
  /\ reconnectAttempts' = K.reconnectAttempts
  /\ reconnectTimer' = K.reconnectTimer
  /\ timers' = K.timers
  /\ activeConnect' = K.activeConnect
  /\ shuttingDown' = K.shuttingDown
  /\ socketGeneration' = K.socketGeneration
  /\ lastOpenAt' = K.lastOpenAt
  /\ selfLid' = K.selfLid
  /\ authDir' = K.authDir
  /\ phase' = K.phase
  /\ suspended' = K.suspended
  /\ staleFrom' = K.staleFrom
  /\ halted' = K.halted

Min(a, b) == IF a < b THEN a ELSE b

\* (a bug: the backoff grows linearly)
Pow2_Linear(n) == n + 1

RECURSIVE Pow2(_)
Pow2(n) == IF n <= 0 THEN 1 ELSE 2 * Pow2(n - 1)

\* The socket is ended: its listeners are removed, an event already emitted
\* may still be in flight.
teardownSocket(K) ==
  IF K.sock = 0 THEN K
  ELSE [K EXCEPT !.staleFrom = K.sock,
                 !.phase = IF K.sock = K.socketGeneration THEN "ended" ELSE @,
                 !.sock = 0, !.isSocketOpen = FALSE, !.lastOpenAt = 0]

\* if (reconnectTimer) { clearTimeout(reconnectTimer); reconnectTimer = null }
cancelTimer(K) ==
  IF K.reconnectTimer # 0
  THEN [K EXCEPT !.timers = @ - 1, !.reconnectTimer = 0]
  ELSE K

\* (a bug: an attempt in flight does not stop a second one)
connect_NoReentryGuard(K) ==
  IF K.shuttingDown THEN K
  ELSE LET K1 == [cancelTimer(K) EXCEPT !.socketGeneration = @ + 1]
       IN [teardownSocket(K1) EXCEPT !.activeConnect = K1.socketGeneration]

\* connect() up to `await useMultiFileAuthState(AUTH_DIR)`
connect(K) ==
  IF K.shuttingDown THEN K
  ELSE IF K.activeConnect # 0 THEN K
  ELSE LET K1 == [cancelTimer(K) EXCEPT !.socketGeneration = @ + 1]
       IN [teardownSocket(K1) EXCEPT !.activeConnect = K1.socketGeneration]

\* connect() after the await: makeWASocket, sock = nextSocket, the listeners;
\* then `finally { activeConnectPromise = null }`.
connectResume(K) ==
  [K EXCEPT !.authDir = TRUE, !.sock = K.activeConnect, !.isSocketOpen = FALSE,
            !.phase = "connecting", !.activeConnect = 0]

\* (a bug: the shutdown flag is not consulted)
scheduleReconnect_NoGuard(K, delay) ==
  [cancelTimer(K) EXCEPT !.reconnectTimer = delay, !.timers = @ + 1]

\* (a bug: the ceiling of the replaced-session closes stops every reconnect)
scheduleReconnect_GivesUp(K, delay) ==
  IF K.shuttingDown \/ K.reconnectAttempts > MAX_440_RETRIES THEN K
  ELSE [cancelTimer(K) EXCEPT !.reconnectTimer = delay, !.timers = @ + 1]

\* (a bug: the pending timer is not cancelled before the next one is armed)
scheduleReconnect_NoCancel(K, delay) ==
  IF K.shuttingDown THEN K
  ELSE [K EXCEPT !.reconnectTimer = delay, !.timers = @ + 1]

scheduleReconnect(K, delay) ==
  IF K.shuttingDown THEN K
  ELSE [cancelTimer(K) EXCEPT !.reconnectTimer = delay, !.timers = @ + 1]

\* (a bug: the ceiling is hit one attempt early)
ceilingExceeded_OffByOne(n) == n >= MAX_440_RETRIES

ceilingExceeded(n) == n > MAX_440_RETRIES

\* user.lid.replace(/:.*@/, '@'): the device suffix is cut out.
stripDevice(lid) == IF lid = "me:5@lid" THEN SelfLid ELSE lid

\* The guard of both listeners: the event's connection is not the current one.
isStale(K, generation, nextSocket) ==
  generation # K.socketGeneration \/ nextSocket # K.sock

\* (a bug: a connection open for exactly the threshold is not stable)
wasStable_Strict(K, now) ==
  K.lastOpenAt > 0 /\ now - K.lastOpenAt > STABLE_CONNECTION_RESET_MS

wasStable(K, now) ==
  K.lastOpenAt > 0 /\ now - K.lastOpenAt >= STABLE_CONNECTION_RESET_MS

\* (a bug: an open connection counts as a successful attempt at once)
onOpen_ResetsCount(K, lid) ==
  [K EXCEPT !.isSocketOpen = TRUE, !.lastOpenAt = OpenedAt,
            !.reconnectAttempts = 0,
            !.selfLid = IF lid # None THEN stripDevice(lid) ELSE None]

\* connection.update listener, the branch of connection === 'open'.
onOpen(K, lid) ==
  [K EXCEPT !.isSocketOpen = TRUE, !.lastOpenAt = OpenedAt,
            !.selfLid = IF lid # None THEN stripDevice(lid) ELSE None]

\* connection.update listener of socket g, up to its first await.
connectionUpdate(K, g, connection, statusCode, now, lid) ==
  IF isStale(K, g, g) THEN K
  ELSE IF connection = "open"
  THEN onOpen(K, lid)
  ELSE IF connection # "close" THEN K
  ELSE LET K1 == [K EXCEPT !.isSocketOpen = FALSE, !.lastOpenAt = 0,
                           !.reconnectAttempts = IF wasStable(K, now) THEN 0 ELSE @]
           n == K1.reconnectAttempts + 1
       IN IF K1.shuttingDown THEN K1
          ELSE IF statusCode = LoggedOut
          THEN [K1 EXCEPT !.suspended = g]
          ELSE IF statusCode = Replaced
          THEN IF ceilingExceeded(n)
               THEN [K1 EXCEPT !.reconnectAttempts = n, !.halted = TRUE]
               ELSE scheduleReconnect([K1 EXCEPT !.reconnectAttempts = n],
                                      Min(10000 * n, 60000))
          ELSE scheduleReconnect([K1 EXCEPT !.reconnectAttempts = n],
                                 Min(2000 * Pow2(n - 1), 60000))

\* (a bug: the logged-out branch leaves the attempt counter as it is)
loggedOutResume_KeepsCount(K) ==
  scheduleReconnect([K EXCEPT !.authDir = FALSE, !.suspended = 0], 3000)

\* connection.update listener, loggedOut branch after `await import('fs')`.
loggedOutResume(K) ==
  scheduleReconnect([K EXCEPT !.authDir = FALSE, !.reconnectAttempts = 0,
                              !.suspended = 0], 3000)

shutdown(K) ==
  IF K.shuttingDown THEN K
  ELSE teardownSocket([cancelTimer(K) EXCEPT !.shuttingDown = TRUE])

\* ================================================================== router
\* An incoming message: key present or not, key.remoteJid, key.fromMe, and the
\* text of message.conversation / extendedTextMessage.
StatusJid == "status@broadcast"
GroupJid == "g@g.us"
OtherJid == "other@s.whatsapp.net"
Jids == {None, StatusJid, GroupJid, OtherJid, allowedJid, SelfLid}
Texts == {"", " ", "hello", "/Clear ", "/project d1"}
UpsertTypes == {"notify", "append"}

Msgs ==
  {m \in [hasKey : BOOLEAN, remoteJid : Jids, fromMe : BOOLEAN, text : Texts] :
     ~m.hasKey => (m.remoteJid = None /\ ~m.fromMe)}

\* String.prototype.trim and toLowerCase over Texts
trim(text) ==
  CASE text = " " -> "" [] text = "/Clear " -> "/Clear" [] OTHER -> text

toLowerCase(text) == IF text = "/Clear" THEN "/clear" ELSE text

\* jid.endsWith('@g.us')
endsWithGUs(jid) == jid = GroupJid

\* lower.startsWith('/project ')
startsWithProject(lower) == lower = "/project d1"

\* trimmed.slice('/project '.length).trim()
projectArg(trimmed) == IF trimmed = "/project d1" THEN "d1" ELSE ""

clearSession(S, chatId) == removeSession(S, chatId)

setProjectDir(S, dir) == [S EXCEPT !.projectDir = dir]

\* (a bug: every conversation is taken for the self-chat)
isSelfJid_Any(K, jid) == TRUE

isSelfJid(K, jid) ==
  jid = allowedJid \/ (K.selfLid # None /\ jid = K.selfLid)

\* handleMessage up to its first await after the filters: the new
\* orchestrator state, the safeSend calls made, whether msg was discarded.
handleMessage(S, K, msg) ==
  LET jid == msg.remoteJid
      trimmed == trim(msg.text)
      lower == toLowerCase(trimmed)
      discard == [S |-> S, sent |-> 0, dropped |-> TRUE]
      reply(S1) == [S |-> S1, sent |-> 1, dropped |-> FALSE]
  IN IF K.sock = 0 \/ ~msg.hasKey THEN discard
     ELSE IF jid = StatusJid THEN discard
     ELSE IF jid = None \/ endsWithGUs(jid) THEN discard
     ELSE IF ~msg.fromMe \/ ~isSelfJid(K, jid) THEN discard
     ELSE IF trimmed = "" THEN discard
     ELSE IF lower = "/clear" THEN reply(clearSession(S, jid))
     ELSE IF lower = "/session new" \/ lower = "/session reset"
          THEN reply(clearSession(S, jid))
     ELSE IF startsWithProject(lower)
          THEN IF projectArg(trimmed) = "" THEN reply(S)
               ELSE reply(clearSession(setProjectDir(S, projectArg(trimmed)), jid))
     ELSE IF lower = "/project" \/ lower = "/help" THEN reply(S)
     ELSE [S |-> sendMessageOn(S, jid), sent |-> 0, dropped |-> FALSE]

\* messages.upsert listener of socket g, for an event that carries one message
messagesUpsert(S, K, g, type, msg) ==
  IF isStale(K, g, g) THEN [S |-> S, sent |-> 0, dropped |-> TRUE]
  ELSE IF type # "notify" THEN [S |-> S, sent |-> 0, dropped |-> TRUE]
  ELSE handleMessage(S, K, msg)

\* ================================================================= actions
\* No sessions in memory, no SESSIONS_FILE yet.
FreshStore ==
  /\ sessions = NoSessions
  /\ disk = NoSessions
  /\ fileKind = "absent"

OrchRest ==
  /\ busy = [c \in Chats |-> FALSE]
  /\ queues = [c \in Chats |-> <<>>]
  /\ items = <<>>
  /\ procs = <<>>
  /\ projectDir = "d0"
  /\ cleared = [c \in Chats |-> FALSE]
  /\ mustBeFresh = {}
  /\ replaced440 = 0
  /\ skipped = FALSE
  /\ outbox = [cmds |-> 0, replies |-> {}]
  /\ dropped = FALSE

OrchInit ==
  /\ FreshStore
  /\ OrchRest

ConnInit ==
  /\ started = FALSE
  /\ sock = 0
  /\ isSocketOpen = FALSE
  /\ reconnectAttempts = 0
  /\ reconnectTimer = 0
  /\ timers = 0
  /\ activeConnect = 0
  /\ shuttingDown = FALSE
  /\ socketGeneration = 0
  /\ lastOpenAt = 0
  /\ selfLid = None
  /\ authDir = TRUE
  /\ phase = "none"
  /\ suspended = 0
  /\ staleFrom = 0
  /\ halted = FALSE

Init == OrchInit /\ ConnInit

\* A new process before init(), over any SESSIONS_FILE: none, one that does
\* not parse, `null`, the JSON string "x", or an object of tokens.
StoreInit ==
  /\ sessions = NoSessions
  /\ fileKind \in FileKinds
  /\ disk \in IF fileKind = "object" THEN [Keys -> {None, "s1", " "}]
              ELSE IF fileKind = "string" THEN {[NoSessions EXCEPT !["0"] = "x"]}
              ELSE {NoSessions}
  /\ OrchRest
  /\ ConnInit

\* init() of a new process: loadSessionsFromDisk into an empty map.
Restart ==
  /\ Commit(loadSessionsFromDisk([Cur EXCEPT !.sessions = NoSessions]))
  /\ UNCHANGED <<histVars, connVars>>

\* processMessage stores the session_id of a result record.
StoreSet(chatId, sessionId) ==
  /\ Truthy(sessionId)
  /\ Commit(setSession(Cur, chatId, sessionId))
  /\ UNCHANGED <<histVars, connVars>>

StoreRemove(chatId) ==
  /\ Commit(removeSession(Cur, chatId))
  /\ UNCHANGED <<histVars, connVars>>

\* handleMessage forwards a message: sendMessage(jid, trimmed, ...)
SendMessage(chatId) ==
  /\ Len(items) < MaxReq
  /\ Commit(sendMessageOn(Cur, chatId))
  /\ UNCHANGED <<histVars, connVars>>

\* handleMessage: /clear, /session new, /session reset
ClearCommand(chatId) ==
  /\ Commit(removeSession(Cur, chatId))
  /\ UNCHANGED <<histVars, connVars>>

\* handleMessage: /project <path>
ProjectCommand(chatId, dir) ==
  /\ Commit(removeSession([Cur EXCEPT !.projectDir = dir], chatId))
  /\ UNCHANGED <<histVars, connVars>>

\* The hard timeout fires: timedOut = true; proc.kill().
Timeout(p) ==
  /\ procs[p].st = "running"
  /\ procs[p].timer
  /\ Commit([Cur EXCEPT !.procs[p].timedOut = TRUE, !.procs[p].timer = FALSE])
  /\ UNCHANGED <<histVars, connVars>>

\* The child emits 'error': it could not be spawned.  Node emits 'close' for
\* such a child as well, after the 'error'.
ProcError(p, enoent) ==
  /\ procs[p].st = "running"
  /\ ~procs[p].timedOut
  /\ Commit(onError(Cur, p, enoent))
  /\ UNCHANGED <<histVars, connVars>>

\* The child emits 'close'.  A child that could not be spawned closes with a
\* negative code and no output; a child that ran closes with any code and
\* output (a killed one too).
ProcClose(p, code, stdout, stderr) ==
  /\ procs[p].st \in {"running", "errored"}
  /\ procs[p].st = "errored" => code = SpawnFailCode /\ stdout = <<>> /\ stderr = ""
  /\ procs[p].st = "running" => code \in ExitCodes
  /\ Commit(onClose(Cur, p, code, stdout, stderr))
  /\ UNCHANGED <<histVars, connVars>>

\* sendMessage, for the runs that look at what a child printed.
SendMessageFew(chatId) ==
  /\ Len(items) < MaxFwd
  /\ Commit(sendMessageOn(Cur, chatId))
  /\ UNCHANGED <<histVars, connVars>>

\* The same three router steps, with the history of the reset commands kept.
SendMessageTracked(chatId) ==
  /\ Len(items) < MaxReq
  /\ Commit(sendMessageOn(Cur, chatId))
  /\ mustBeFresh' = IF cleared[chatId] THEN mustBeFresh \cup {Len(items) + 1}
                    ELSE mustBeFresh
  /\ cleared' = [cleared EXCEPT ![chatId] = FALSE]
  /\ UNCHANGED <<connHist, routerHist, connVars>>

ClearCommandTracked(chatId) ==
  /\ Commit(removeSession(Cur, chatId))
  /\ cleared' = [cleared EXCEPT ![chatId] = TRUE]
  /\ UNCHANGED <<mustBeFresh, connHist, routerHist, connVars>>

ProjectCommandTracked(chatId, dir) ==
  /\ Commit(removeSession([Cur EXCEPT !.projectDir = dir], chatId))
  /\ cleared' = [cleared EXCEPT ![chatId] = TRUE]
  /\ UNCHANGED <<mustBeFresh, connHist, routerHist, connVars>>

\* startWhatsApp, called once by main()
StartWhatsApp ==
  /\ ~started
  /\ started' = TRUE
  /\ CommitConn(connect([CurConn EXCEPT !.shuttingDown = FALSE]))
  /\ UNCHANGED <<orchVars, histVars>>

ConnectResume ==
  /\ activeConnect # 0
  /\ CommitConn(connectResume(CurConn))
  /\ UNCHANGED <<started, orchVars, histVars>>

\* The socket made last reports 'open'.
SocketOpen(lid) ==
  /\ phase = "connecting"
  /\ CommitConn([connectionUpdate(CurConn, socketGeneration, "open", 0, 0, lid)
                   EXCEPT !.phase = "open"])
  /\ UNCHANGED <<started, orchVars, histVars>>

\* The socket made last reports 'close'; it reports nothing after that.
SocketClose(statusCode, now) ==
  /\ phase \in {"connecting", "open"}
  /\ CommitConn([connectionUpdate(CurConn, socketGeneration, "close", statusCode, now, None)
                   EXCEPT !.phase = "closed"])
  /\ UNCHANGED <<started, orchVars, histVars>>

\* An event of a torn down socket reaches its listener.
StaleUpdate(connection, statusCode, now) ==
  /\ staleFrom # 0
  /\ CommitConn([connectionUpdate(CurConn, staleFrom, connection, statusCode, now, None)
                   EXCEPT !.staleFrom = 0])
  /\ UNCHANGED <<started, orchVars, histVars>>

LoggedOutResume ==
  /\ suspended # 0
  /\ CommitConn(loggedOutResume(CurConn))
  /\ UNCHANGED <<started, orchVars, histVars>>

\* The same two handlers, with the history of the closes kept.
SocketCloseTracked(statusCode, now) ==
  /\ phase \in {"connecting", "open"}
  /\ CommitConn([connectionUpdate(CurConn, socketGeneration, "close", statusCode, now, None)
                   EXCEPT !.phase = "closed"])
  /\ replaced440' =
       LET since == IF wasStable(CurConn, now) THEN 0 ELSE replaced440
       IN IF ~shuttingDown /\ statusCode = Replaced THEN since + 1 ELSE since
  /\ UNCHANGED <<started, orchVars, orchHist, routerHist, skipped>>

LoggedOutResumeTracked ==
  /\ suspended # 0
  /\ CommitConn(loggedOutResume(CurConn))
  /\ replaced440' = 0
  /\ UNCHANGED <<started, orchVars, orchHist, routerHist, skipped>>

\* The reconnect timer expires.
TimerFire ==
  /\ timers > 0
  /\ socketGeneration < MaxGen
  /\ CommitConn(connect([CurConn EXCEPT !.reconnectTimer = 0, !.timers = @ - 1]))
  /\ UNCHANGED <<started, orchVars, histVars>>

\* startWhatsApp is exported: a caller may call it at any time, and again.
StartWhatsAppAny ==
  /\ socketGeneration < MaxGen
  /\ started' = TRUE
  /\ CommitConn(connect([CurConn EXCEPT !.shuttingDown = FALSE]))
  /\ skipped' = (skipped \/ activeConnect # 0)
  /\ UNCHANGED <<orchVars, orchHist, routerHist, replaced440>>

\* The reconnect timer expires, with the history of the connect() calls kept.
TimerFireTracked ==
  /\ timers > 0
  /\ socketGeneration < MaxGen
  /\ CommitConn(connect([CurConn EXCEPT !.reconnectTimer = 0, !.timers = @ - 1]))
  /\ skipped' = (skipped \/ (~shuttingDown /\ activeConnect # 0))
  /\ UNCHANGED <<started, orchVars, orchHist, routerHist, replaced440>>

Shutdown ==
  /\ started
  /\ CommitConn(shutdown(CurConn))
  /\ UNCHANGED <<started, orchVars, histVars>>

\* The socket made last delivers a message.
MessagesUpsert(type, msg) ==
  /\ phase \in {"connecting", "open"}
  /\ Len(items) < MaxFwd
  /\ outbox.cmds < MaxCmds
  /\ LET R == messagesUpsert(Cur, CurConn, socketGeneration, type, msg)
     IN /\ Commit(R.S)
        /\ outbox' = [outbox EXCEPT !.cmds = @ + R.sent]
        /\ dropped' = (dropped \/ R.dropped)
  /\ UNCHANGED <<orchHist, connHist, connVars>>

\* A message of a torn down socket reaches its listener.
StaleUpsert(type, msg) ==
  /\ staleFrom # 0
  /\ LET R == messagesUpsert(Cur, CurConn, staleFrom, type, msg)
     IN /\ Commit(R.S)
        /\ outbox' = [outbox EXCEPT !.cmds = @ + R.sent]
        /\ dropped' = (dropped \/ R.dropped)
  /\ staleFrom' = 0
  /\ UNCHANGED <<orchHist, connHist, started, sock, isSocketOpen, reconnectAttempts,
                 reconnectTimer, timers, activeConnect, shuttingDown, socketGeneration,
                 lastOpenAt, selfLid, authDir, phase, suspended, halted>>

\* handleMessage after `await sendMessage(...)`: the reply, or the error, of
\* request r is sent.
Reply(r) ==
  /\ r \in DOMAIN items
  /\ items[r].outcome.st # "pending"
  /\ r \notin outbox.replies
  /\ outbox' = [outbox EXCEPT !.replies = @ \cup {r}]
  /\ UNCHANGED <<orchVars, orchHist, connHist, dropped, connVars>>

\* ========================================================== specifications
\* The child process events, in every specification of the orchestrator.
ProcIds == 1..(2 * MaxReq)

\* The orchestrator.
OrchNext ==
  \/ \E c \in OrchChats : SendMessage(c)
  \/ \E c \in OrchChats : ClearCommand(c)
  \/ \E c \in OrchChats, d \in ProjectDirs : ProjectCommand(c, d)
  \/ \E p \in DOMAIN procs : Timeout(p)
  \/ \E p \in DOMAIN procs, e \in BOOLEAN : ProcError(p, e)
  \/ \E p \in DOMAIN procs, code \in ExitCodes \cup {SpawnFailCode},
        out \in Stdouts, err \in Stderrs : ProcClose(p, code, out, err)

OrchSpec == Init /\ [][OrchNext]_vars

\* Every child that was spawned is eventually reported closed: a child that
\* runs exits or is killed by the hard timeout, one that could not be spawned
\* is closed by Node.
CloseOf(p) ==
  /\ p \in DOMAIN procs
  /\ \E code \in ExitCodes \cup {SpawnFailCode}, out \in Stdouts, err \in Stderrs :
       ProcClose(p, code, out, err)

FairOrchSpec == OrchSpec /\ \A p \in ProcIds : WF_vars(CloseOf(p))

\* The orchestrator with the history of the reset commands.
TrackedNext ==
  \/ \E c \in OrchChats : SendMessageTracked(c)
  \/ \E c \in OrchChats : ClearCommandTracked(c)
  \/ \E c \in OrchChats, d \in ProjectDirs : ProjectCommandTracked(c, d)
  \/ \E p \in DOMAIN procs : Timeout(p)
  \/ \E p \in DOMAIN procs, e \in BOOLEAN : ProcError(p, e)
  \/ \E p \in DOMAIN procs, code \in ExitCodes \cup {SpawnFailCode},
        out \in Stdouts, err \in Stderrs : ProcClose(p, code, out, err)

TrackedSpec == Init /\ [][TrackedNext]_vars

\* The transport.
ConnNext ==
  \/ StartWhatsApp
  \/ ConnectResume
  \/ \E lid \in Lids : SocketOpen(lid)
  \/ \E code \in StatusCodes, now \in CloseTimes : SocketClose(code, now)
  \/ \E k \in {"open", "close"}, code \in StatusCodes, now \in CloseTimes :
       StaleUpdate(k, code, now)
  \/ LoggedOutResume
  \/ TimerFire
  \/ Shutdown

ConnSpec == Init /\ [][ConnNext]_vars

\* An armed timer expires, and the `await import('fs')` of the logged-out
\* branch completes.
FairConnSpec == ConnSpec /\ WF_vars(TimerFire) /\ WF_vars(LoggedOutResume)

\* The transport with the history of the closes.
ConnTrackedNext ==
  \/ StartWhatsApp
  \/ ConnectResume
  \/ \E lid \in Lids : SocketOpen(lid)
  \/ \E code \in StatusCodes, now \in CloseTimes : SocketCloseTracked(code, now)
  \/ \E k \in {"open", "close"}, code \in StatusCodes, now \in CloseTimes :
       StaleUpdate(k, code, now)
  \/ LoggedOutResumeTracked
  \/ TimerFire
  \/ Shutdown

ConnTrackedSpec == Init /\ [][ConnTrackedNext]_vars

\* The transport with startWhatsApp called by any caller at any time.
ConnApiNext ==
  \/ StartWhatsAppAny
  \/ ConnectResume
  \/ \E lid \in Lids : SocketOpen(lid)
  \/ \E code \in StatusCodes, now \in CloseTimes : SocketClose(code, now)
  \/ \E k \in {"open", "close"}, code \in StatusCodes, now \in CloseTimes :
       StaleUpdate(k, code, now)
  \/ LoggedOutResume
  \/ TimerFireTracked
  \/ Shutdown

ConnApiSpec == Init /\ [][ConnApiNext]_vars

\* The first message forwarded by handleMessage, for the runs over every
\* output.
SendMessageOne(chatId) ==
  /\ items = <<>>
  /\ Commit(sendMessageOn(Cur, chatId))
  /\ UNCHANGED <<histVars, connVars>>

\* A child that ran exits with code 0 and nothing on stderr.
ProcExit(p, stdout) ==
  /\ procs[p].st = "running"
  /\ Commit(onClose(Cur, p, 0, stdout, ""))
  /\ UNCHANGED <<histVars, connVars>>

\* The orchestrator over every output of up to MaxLines lines.
ParseNext ==
  \/ \E c \in OrchChats : SendMessageOne(c)
  \/ \E c \in OrchChats : ClearCommand(c)
  \/ \E p \in DOMAIN procs, out \in ParseStdouts : ProcExit(p, out)

ParseSpec == Init /\ [][ParseNext]_vars

\* The orchestrator over everything a child can print.
ExitNext ==
  \/ \E c \in OrchChats : SendMessageFew(c)
  \/ \E p \in DOMAIN procs : Timeout(p)
  \/ \E p \in DOMAIN procs, code \in ExitCodes, out \in RawStdouts, err \in Stderrs :
       ProcClose(p, code, out, err)

ExitSpec == Init /\ [][ExitNext]_vars

\* The session store across restarts.
StoreNext ==
  \/ Restart
  \/ \E c \in Chats, v \in AcceptedTokens : StoreSet(c, v)
  \/ \E c \in Chats : StoreRemove(c)

StoreSpec == StoreInit /\ [][StoreNext]_vars

\* The router on top of the transport and the orchestrator.
RouterNext ==
  \/ StartWhatsApp
  \/ ConnectResume
  \/ \E lid \in Lids : SocketOpen(lid)
  \/ Shutdown
  \/ \E type \in UpsertTypes, msg \in Msgs : MessagesUpsert(type, msg)
  \/ \E type \in UpsertTypes, msg \in Msgs : StaleUpsert(type, msg)
  \/ \E p \in DOMAIN procs, code \in ExitCodes, out \in {<<>>, <<ResultLine1>>} :
       ProcClose(p, code, out, "")
  \/ \E r \in 1..MaxFwd : Reply(r)

RouterSpec == Init /\ [][RouterNext]_vars

\* ================================================================== claims
SpawnsOf(r) == {p \in DOMAIN procs : procs[p].item = r}
Live(c) == {p \in DOMAIN procs : procs[p].chatId = c /\ procs[p].st = "running"}
Spawned == Len(procs') = Len(procs) + 1
NewProc == procs'[Len(procs')]
ErrMsgOf(code, stderr) == IF stderr # "" THEN stderr ELSE ExitMsg(code)
Rejected(text) == [st |-> "rejected", text |-> text]

\* The condition under which the 'close' handler takes the contention retry.
RetryTaken(p, code, stderr) ==
  /\ ~procs[p].timedOut
  /\ code # 0
  /\ isSessionInUseError(ErrMsgOf(code, stderr))
  /\ sessions[procs[p].chatId] # None
  /\ ~items[procs[p].item].sessionRecoveryTried

\* ---------------------------------------------------------------------- C1
\* C1: in every reachable state, each conversation has at most one agent
\* process that was spawned and is still running.
C1_SingleFlight == \A c \in Chats : Cardinality(Live(c)) <= 1

\* ---------------------------------------------------------------------- C2
\* C2: requests of one conversation run in submission order: a request is
\* never spawned while an earlier request of its conversation is unfulfilled,
\* and the queue holds the waiting requests oldest first.
C2_SubmissionOrder ==
  /\ \A r1, r2 \in DOMAIN items :
       (r1 < r2 /\ items[r1].chatId = items[r2].chatId /\ SpawnsOf(r2) # {})
         => items[r1].outcome.st # "pending"
  /\ \A c \in Chats : \A i, j \in DOMAIN queues[c] :
       i < j => queues[c][i] < queues[c][j]

\* ---------------------------------------------------------------------- C3
C3_Step(p, stdout, stderr, alsoTimedOut) ==
  LET r == procs[p].item
      c == procs[p].chatId
      errMsg == ErrMsgOf(1, stderr)
      respawned == Spawned /\ NewProc.item = r
  IN (/\ ProcClose(p, 1, stdout, stderr)
      /\ isSessionInUseError(errMsg)
      /\ alsoTimedOut \/ ~procs[p].timedOut)
     => IF sessions[c] # None /\ ~items[r].sessionRecoveryTried
        THEN /\ respawned
             /\ items'[r].sessionRecoveryTried
             /\ items'[r].outcome = items[r].outcome
        ELSE /\ ~respawned
             /\ items[r].outcome.st = "pending" => items'[r].outcome = Rejected(errMsg)

\* C3 as claimed: a request whose process exits non-zero with the contention
\* error, with a token on file and no recovery attempted, is re-executed;
\* otherwise it is rejected with that error and not executed again; no
\* request is spawned more than twice.
C3_AsClaimed ==
  /\ [](\A r \in DOMAIN items : Cardinality(SpawnsOf(r)) <= 2)
  /\ [][\A p \in DOMAIN procs, out \in Stdouts, err \in Stderrs :
          C3_Step(p, out, err, TRUE)]_vars

\* C3 amended: the same, for a process whose hard timeout has not fired.
C3_RetryOnce ==
  /\ [](\A r \in DOMAIN items : Cardinality(SpawnsOf(r)) <= 2)
  /\ [][\A p \in DOMAIN procs, out \in Stdouts, err \in Stderrs :
          C3_Step(p, out, err, FALSE)]_vars

\* A request that was retried and then rejected with the contention error.
C3_Witness ==
  \E r \in DOMAIN items :
    /\ Cardinality(SpawnsOf(r)) = 2
    /\ items[r].sessionRecoveryTried
    /\ items[r].outcome = Rejected(InUseErr)

\* ---------------------------------------------------------------------- C4
\* C4: when the contention retry is taken, the token is gone from the
\* session map and from the session file, and the request's new process is
\* spawned without a resume argument.
C4_RetryIsFresh ==
  [][\A p \in DOMAIN procs, out \in Stdouts, err \in Stderrs :
       (ProcClose(p, 1, out, err) /\ RetryTaken(p, 1, err))
         => /\ sessions'[procs[p].chatId] = None
            /\ disk'[procs[p].chatId] = None
            /\ Spawned
            /\ NewProc.item = procs[p].item
            /\ NewProc.resume = None]_vars

\* The retry of a request is running, without a token.
C4_Witness ==
  \E p \in DOMAIN procs :
    /\ procs[p].st = "running"
    /\ items[procs[p].item].sessionRecoveryTried
    /\ procs[p].resume = None
    /\ disk[procs[p].chatId] = None

\* ---------------------------------------------------------------------- C5
C5_Step(p, stdout, stderr, alsoTimedOut) ==
  LET c == procs[p].chatId
      sid == parseOutput(stdout).session_id
  IN (/\ ProcClose(p, 0, stdout, stderr)
      /\ parseOutput(stdout).ok
      /\ sid # ""
      /\ alsoTimedOut \/ ~procs[p].timedOut)
     => /\ sessions'[c] = sid
        /\ disk'[c] = sid
        /\ Spawned => NewProc.resume = sid

C5_SpawnCarriesToken ==
  Spawned => NewProc.resume = sessions'[NewProc.chatId]

\* C5 as claimed: a process is spawned with the token on file, and with none
\* when none is on file; after a process exits 0 with a result record that
\* carries a session id, the store maps the conversation to that id and the
\* next process spawned carries it.
C5_AsClaimed ==
  [][/\ C5_SpawnCarriesToken
     /\ \A p \in DOMAIN procs, out \in Stdouts, err \in Stderrs :
          C5_Step(p, out, err, TRUE)]_vars

\* C5 amended: the same, for a process whose hard timeout has not fired.
C5_SessionContinuity ==
  [][/\ C5_SpawnCarriesToken
     /\ \A p \in DOMAIN procs, out \in Stdouts, err \in Stderrs :
          C5_Step(p, out, err, FALSE)]_vars

\* A process resumes the token that replaced an earlier one.
C5_Witness ==
  \E p \in DOMAIN procs :
    /\ procs[p].st = "running"
    /\ procs[p].resume = "s2"
    /\ sessions[procs[p].chatId] = "s2"
    /\ \E q \in DOMAIN procs : q < p /\ procs[q].st = "closed"

\* ---------------------------------------------------------------------- C6
\* C6: the first message forwarded after a reset command (/clear, /session
\* new, /session reset, /project <path>) is spawned without a resume token.
C6_FreshAfterReset ==
  [][(Spawned /\ NewProc.item \in mustBeFresh' /\ SpawnsOf(NewProc.item) = {})
       => NewProc.resume = None]_vars

\* ---------------------------------------------------------------------- C8
C8_Ended(p) ==
  LET c == procs[p].chatId
      r == procs[p].item
  IN /\ items'[r].outcome.st # "pending"
     /\ IF queues[c] = <<>>
        THEN ~busy'[c] /\ ~Spawned
        ELSE /\ busy'[c]
             /\ Spawned
             /\ NewProc.item = Head(queues[c])
             /\ queues'[c] = Tail(queues[c])

\* C8: however a request ends, its outcome is fulfilled, the busy flag is
\* cleared and the head of the queue, if any, is started; and every request
\* submitted is eventually fulfilled.
C8_EveryRequestEnds ==
  /\ [][\A p \in DOMAIN procs :
          /\ \A e \in BOOLEAN : ProcError(p, e) => C8_Ended(p)
          /\ \A code \in ExitCodes \cup {SpawnFailCode}, out \in Stdouts, err \in Stderrs :
               (ProcClose(p, code, out, err) /\ ~RetryTaken(p, code, err))
                 => C8_Ended(p)]_vars
  /\ \A r \in 1..MaxReq :
       (r \in DOMAIN items) ~> (r \in DOMAIN items /\ items[r].outcome.st # "pending")

\* A request timed out and the request queued behind it was answered.
C8_Witness ==
  /\ Len(items) >= 2
  /\ items[1].outcome = Rejected(TimeoutMsg)
  /\ items[2].outcome.st = "resolved"
  /\ \A c \in Chats : ~busy[c]

\* ---------------------------------------------------------------------- C9
ProcEvent(p) ==
  \/ Timeout(p)
  \/ \E e \in BOOLEAN : ProcError(p, e)
  \/ \E code \in ExitCodes \cup {SpawnFailCode}, out \in Stdouts, err \in Stderrs :
       ProcClose(p, code, out, err)

\* C9: an outcome, once fulfilled, does not change, and it is a reply or an
\* error of the taxonomy; after a request is fulfilled, no event of its
\* process changes the busy flag, the queue or the session token, or spawns.
C9_FulfilledOnce ==
  /\ [](\A r \in DOMAIN items :
          items[r].outcome.st = "rejected"
            => items[r].outcome.text \in
                 {NotFoundMsg, SpawnErrMsg, TimeoutMsg, NoResponseMsg, InUseErr,
                  ExitMsg(1), ExitMsg(SpawnFailCode)})
  /\ [][\A r \in DOMAIN items :
          items[r].outcome.st # "pending" => items'[r].outcome = items[r].outcome]_vars
  /\ [][\A p \in DOMAIN procs :
          (ProcEvent(p) /\ items[procs[p].item].outcome.st # "pending")
            => /\ busy' = busy
               /\ queues' = queues
               /\ sessions' = sessions
               /\ ~Spawned]_vars

\* ---------------------------------------------------------------------- C7
GuardedState == <<isSocketOpen, reconnectAttempts, authDir, reconnectTimer>>

\* C7: a connection event whose connection is not the current one (another
\* generation, or a handle that is no longer owned) changes neither
\* isSocketOpen nor reconnectAttempts, deletes no credentials and schedules no
\* reconnect; also in the part of its handler that runs after an await.
C7_StaleEventsIgnored ==
  [][/\ (\E k \in {"open", "close"}, code \in StatusCodes, now \in CloseTimes :
           StaleUpdate(k, code, now))
          => UNCHANGED GuardedState
     /\ (LoggedOutResume /\ isStale(CurConn, suspended, suspended))
          => UNCHANGED GuardedState]_vars

\* --------------------------------------------------------------------- C10
\* C10: a replaced-session close of the current connection that takes
\* reconnectAttempts over MAX_440_RETRIES schedules no reconnect, and from
\* then on the generation never grows; one that leaves the counter at or
\* under MAX_440_RETRIES schedules a reconnect, unless shutting down.
C10_CeilingIsFinal ==
  /\ [][\A now \in CloseTimes :
          (SocketClose(Replaced, now) /\ ~shuttingDown)
            => IF reconnectAttempts' > MAX_440_RETRIES
               THEN reconnectTimer' = 0 /\ halted'
               ELSE reconnectTimer' = Min(10000 * reconnectAttempts', 60000)
                    /\ reconnectTimer' # 0 /\ ~halted']_vars
  /\ [][halted => socketGeneration' = socketGeneration /\ reconnectTimer' = 0]_vars

\* The ceiling was hit by the eleventh replaced-session close in a row.
C10_Witness ==
  /\ halted
  /\ ~shuttingDown
  /\ reconnectAttempts = MAX_440_RETRIES + 1
  /\ reconnectTimer = 0
  /\ phase = "closed"

\* --------------------------------------------------------------------- C11
\* C11: reconnection is halted only after more than MAX_440_RETRIES
\* replaced-session closes since reconnectAttempts was last reset; generic
\* disconnects do not count toward the ceiling and never halt reconnection.
C11_OnlyReplacedHalts ==
  /\ [](halted => replaced440 > MAX_440_RETRIES)
  /\ [][\A now \in CloseTimes : SocketCloseTracked(Generic, now) => halted' = halted]_vars

\* --------------------------------------------------------------------- C12
\* min(2000 * 2^(n-1), 60000) and min(10000 * n, 60000), tabulated.
C12_GenericDelay(n) ==
  CASE n = 1 -> 2000 [] n = 2 -> 4000 [] n = 3 -> 8000 [] n = 4 -> 16000
    [] n = 5 -> 32000 [] OTHER -> 60000

C12_ReplacedDelay(n) ==
  CASE n = 1 -> 10000 [] n = 2 -> 20000 [] n = 3 -> 30000 [] n = 4 -> 40000
    [] n = 5 -> 50000 [] OTHER -> 60000

\* C12: a generic close of the current connection that brings the counter to
\* n schedules a reconnect in min(2000 * 2^(n-1), 60000) ms, a replaced-session
\* close that brings it to n <= 10 one in min(10000 * n, 60000) ms; every
\* pending delay lies in [2000, 60000] ms.
C12_BackoffDelays ==
  /\ [](reconnectTimer # 0 => reconnectTimer >= 2000 /\ reconnectTimer <= 60000)
  /\ [][\A now \in CloseTimes :
          /\ (SocketClose(Generic, now) /\ ~shuttingDown)
               => reconnectTimer' = C12_GenericDelay(reconnectAttempts')
          /\ (SocketClose(Replaced, now) /\ ~shuttingDown
                /\ reconnectAttempts' <= MAX_440_RETRIES)
               => reconnectTimer' = C12_ReplacedDelay(reconnectAttempts')]_vars

\* The capped exponential delay is pending after the seventh generic close
\* in a row.
C12_Witness ==
  /\ reconnectTimer = 60000
  /\ reconnectAttempts = 7
  /\ phase = "closed"
  /\ ~halted

\* --------------------------------------------------------------------- C13
\* The current connection was opened and now is at least the threshold later.
C13_OpenLongEnough(now) ==
  lastOpenAt > 0 /\ now >= lastOpenAt + STABLE_CONNECTION_RESET_MS

C13_CloseStep(code, now) ==
  SocketClose(code, now)
    => IF C13_OpenLongEnough(now)
       THEN IF shuttingDown \/ code = LoggedOut
            THEN reconnectAttempts' = 0
            ELSE /\ reconnectAttempts' = 1
                 /\ reconnectTimer' = IF code = Replaced THEN 10000 ELSE 2000
       ELSE reconnectAttempts' >= reconnectAttempts

\* C13 as claimed: a close of a connection that was open for at least
\* STABLE_CONNECTION_RESET_MS resets the counter before the increment, so the
\* backoff is that of attempt 1; the handler of any other close, to its end,
\* does not reset the counter.
C13_AsClaimed ==
  [][/\ \A code \in StatusCodes, now \in CloseTimes : C13_CloseStep(code, now)
     /\ LoggedOutResume => reconnectAttempts' >= reconnectAttempts]_vars

\* C13 amended: the same, except that the handler of a logged-out close ends
\* by setting the counter to 0 however long the connection was open.
C13_StableReset ==
  [][/\ \A code \in StatusCodes, now \in CloseTimes : C13_CloseStep(code, now)
     /\ LoggedOutResume => reconnectAttempts' = 0]_vars

\* The third connection was open for the threshold and closed: the counter
\* is 1 and the first backoff delay is pending.
C13_Witness ==
  /\ socketGeneration = 3
  /\ phase = "closed"
  /\ reconnectAttempts = 1
  /\ reconnectTimer = 2000
  /\ selfLid # None

\* --------------------------------------------------------------------- C14
\* C14: shutdown() sets shuttingDown, cancels the reconnect timer and gives
\* up the handle; a second call changes nothing; once shuttingDown is set no
\* timer is pending and the generation never grows, whatever close events,
\* timer expiry or in-flight connect follow.
C14_ShutdownIsFinal ==
  /\ [](shuttingDown => reconnectTimer = 0)
  /\ [][/\ Shutdown => shuttingDown' /\ reconnectTimer' = 0 /\ sock' = 0
        /\ (Shutdown /\ shuttingDown) => UNCHANGED connVars
        /\ shuttingDown => shuttingDown' /\ socketGeneration' = socketGeneration]_vars

\* shutdown() ran while a connect was in flight, and the connection made by
\* that connect has since closed.
C14_Witness ==
  /\ shuttingDown
  /\ sock # 0
  /\ phase = "closed"
  /\ reconnectTimer = 0

\* --------------------------------------------------------------------- C15
C15_ConnectCall == StartWhatsAppAny \/ TimerFireTracked

\* C15: the generation changes only by a connect() call that finds no attempt
\* in flight, and then by exactly one, that call's attempt being the one in
\* flight afterwards; a connect() call that finds an attempt in flight leaves
\* the generation, the attempt in flight and the handle as they are; an
\* attempt in flight is always the one of the current generation.
C15_OneAttemptInFlight ==
  /\ [](activeConnect # 0 => activeConnect = socketGeneration)
  /\ [][/\ socketGeneration' # socketGeneration
             => /\ socketGeneration' = socketGeneration + 1
                /\ C15_ConnectCall
                /\ activeConnect = 0
                /\ activeConnect' = socketGeneration'
        /\ (C15_ConnectCall /\ activeConnect # 0)
             => UNCHANGED <<socketGeneration, activeConnect, sock>>
        /\ (C15_ConnectCall /\ activeConnect = 0 /\ ~shuttingDown')
             => socketGeneration' = socketGeneration + 1]_vars

\* A connect() call returned the attempt in flight, which is still in flight.
C15_Witness ==
  /\ skipped
  /\ activeConnect # 0
  /\ activeConnect = socketGeneration

\* --------------------------------------------------------------------- C16
\* C16: a handle is created only when none is owned (the one owned before was
\* torn down), the handle owned is the one created last and not yet ended,
\* and once shutdown() has run no handle is owned.
C16_OneLiveHandle ==
  /\ [](sock # 0 => sock = socketGeneration /\ phase # "ended")
  /\ [][ConnectResume => sock = 0 /\ sock' = socketGeneration]_vars
  /\ [](shuttingDown => sock = 0)

\* --------------------------------------------------------------------- C17
\* The messages the bridge must not act on.
C17_NotForTheBridge(type, msg) ==
  \/ type # "notify"
  \/ msg.remoteJid = StatusJid
  \/ msg.remoteJid = GroupJid
  \/ ~msg.fromMe
  \/ msg.remoteJid \notin ({allowedJid} \cup ({selfLid} \ {None}))
  \/ msg.text \in {"", " "}

\* C17: an incoming message that is a status broadcast, a group message, not
\* fromMe, addressed to a conversation other than allowedJid and selfLid,
\* blank, or not of type notify spawns no process, changes no session token
\* and not the project directory, and makes no safeSend call: in every
\* reachable state the listener, of the current socket or of a torn down one,
\* returns the orchestrator as it found it.
C17_OnlySelfChatTriggers ==
  \A type \in UpsertTypes, msg \in Msgs, g \in {socketGeneration, staleFrom} :
    C17_NotForTheBridge(type, msg)
      => LET R == messagesUpsert(Cur, CurConn, g, type, msg)
         IN R.S = Cur /\ R.sent = 0

\* A message was discarded, one sent to the account's @lid self-chat was
\* forwarded, and a command was answered.
C17_Witness ==
  /\ dropped
  /\ \E r \in DOMAIN items : items[r].chatId = SelfLid
  /\ outbox.cmds > 0

\* --------------------------------------------------------------------- C18
\* C18: when the file holds what saveSessionsToDisk wrote for the mapping in
\* memory, a new process loads that same mapping.
C18_RoundTrip ==
  [][(Restart /\ fileKind = "object" /\ disk = sessions) => sessions' = sessions]_vars

\* --------------------------------------------------------------------- C19
\* C19: a new process that finds no file, or a file that does not parse or
\* does not hold an object, starts with the empty mapping.
C19_BadFileLoadsEmpty ==
  [][(Restart /\ fileKind \in {"absent", "unparsable", "null", "string"})
       => sessions' = NoSessions]_vars

\* --------------------------------------------------------------------- C20
\* The outputs from which no record can be extracted, and for each the
\* trimmed output cut to 2000 characters.
C20_Unstructured == {<<>>, <<BlankLine>>, <<PlainLine>>, <<LongLine>>}

C20_Fallback(out) ==
  CASE out = <<PlainLine>> -> PlainLine
    [] out = <<LongLine>> -> LongLineCut
    [] OTHER -> ""

C20_Step(p, out, err, isEmpty, alsoTimedOut) ==
  (/\ ProcClose(p, 0, out, err)
   /\ out \in C20_Unstructured
   /\ alsoTimedOut \/ ~procs[p].timedOut)
    => /\ sessions' = sessions
       /\ disk' = disk
       /\ items'[procs[p].item].outcome =
            IF isEmpty THEN Rejected(NoResponseMsg)
            ELSE [st |-> "resolved", text |-> C20_Fallback(out)]

\* C20 as claimed: on a zero exit with an output that holds no record, the
\* request is resolved with the trimmed output cut to 2000 characters if the
\* output is not empty, and rejected with the no-response error if it is
\* empty; the session token stays as it was.
C20_AsClaimed ==
  [][\A p \in DOMAIN procs, out \in RawStdouts, err \in Stderrs :
       C20_Step(p, out, err, out = <<>>, TRUE)]_vars

\* C20 amended: the same for a process whose hard timeout has not fired,
\* an output of blank characters only counting as empty.
C20_RawFallback ==
  [][\A p \in DOMAIN procs, out \in RawStdouts, err \in Stderrs :
       C20_Step(p, out, err, out \in {<<>>, <<BlankLine>>}, FALSE)]_vars

\* The first request stored a token, the second was answered with the cut
\* raw output, and the token is still on file.
C20_Witness ==
  /\ Len(items) >= 2
  /\ items[1].outcome = [st |-> "resolved", text |-> "hi"]
  /\ items[2].outcome = [st |-> "resolved", text |-> LongLineCut]
  /\ sessions[allowedJid] = "s1"
  /\ disk[allowedJid] = "s1"

\* --------------------------------------------------------------------- C21
\* The logged-out branch up to its await: the close is the current
\* connection's, shuttingDown is false, and the handler is left suspended
\* with nothing discarded and nothing scheduled yet.
C21_CloseStep(now) ==
  (SocketClose(LoggedOut, now) /\ ~shuttingDown)
    => /\ suspended' = socketGeneration
       /\ UNCHANGED <<authDir, reconnectTimer>>

\* C21: the handler of a logged-out close of the current connection, observed
\* while not shutting down, discards the credentials and sets
\* reconnectAttempts to 0 whatever the counter was, and schedules a reconnect
\* in the fixed 3000 ms; the three happen as the handler resumes after its
\* await, and if shutdown() ran in between, the timer stays unarmed.
C21_LoggedOutReset ==
  [][/\ \A now \in CloseTimes : C21_CloseStep(now)
     /\ LoggedOutResume
          => /\ ~authDir'
             /\ reconnectAttempts' = 0
             /\ reconnectTimer' = IF shuttingDown THEN 0 ELSE 3000]_vars

\* The third connection, after two that closed without ever opening, closed
\* logged out: the credentials are gone, the counter is 0 and the fixed delay
\* is pending.
C21_Witness ==
  /\ socketGeneration = 3
  /\ phase = "closed"
  /\ lastOpenAt = 0
  /\ selfLid = None
  /\ ~authDir
  /\ reconnectAttempts = 0
  /\ reconnectTimer = 3000
  /\ suspended = 0

\* --------------------------------------------------------------------- C22
\* C22: an 'open' event of the current connection sets isSocketOpen and
\* records lastOpenAt, and leaves reconnectAttempts, the generation and the
\* reconnect timer as they are; reconnectAttempts goes down only by a close
\* of a connection that was open for STABLE_CONNECTION_RESET_MS or by the
\* handler of a logged-out close.
C22_OpenKeepsCount ==
  [][/\ \A lid \in Lids :
          (SocketOpen(lid) /\ sock = socketGeneration)
            => /\ isSocketOpen'
               /\ lastOpenAt' = OpenedAt
               /\ lastOpenAt' > 0
               /\ UNCHANGED <<reconnectAttempts, socketGeneration, reconnectTimer>>
     /\ reconnectAttempts' < reconnectAttempts
          => \/ LoggedOutResume
             \/ \E code \in StatusCodes, now \in CloseTimes :
                  SocketClose(code, now) /\ C13_OpenLongEnough(now)]_vars

\* The third connection opened after two failed attempts: it is open and the
\* counter still stands at 2.
C22_Witness ==
  /\ socketGeneration = 3
  /\ phase = "open"
  /\ isSocketOpen
  /\ lastOpenAt = OpenedAt
  /\ reconnectAttempts = 2
  /\ reconnectTimer = 0

\* --------------------------------------------------------------------- C23
\* C23: at most one reconnect timer is armed, and it is the one the handle
\* reconnectTimer holds; a handler that schedules a reconnect leaves exactly
\* one armed, whatever was pending; a connection attempt that begins leaves
\* none; a timer that expires while an attempt is in flight starts no second
\* attempt.
C23_OneTimer ==
  /\ [](timers <= 1 /\ (timers = 1 <=> reconnectTimer # 0))
  /\ [][/\ (LoggedOutResume /\ ~shuttingDown)
             => timers' = 1 /\ reconnectTimer' = 3000
        /\ (\E code \in {Generic, Replaced}, now \in CloseTimes :
              SocketClose(code, now) /\ sock = socketGeneration /\ ~shuttingDown /\ ~halted')
             => timers' = 1 /\ reconnectTimer' # 0
        /\ socketGeneration' # socketGeneration
             => timers' = 0 /\ reconnectTimer' = 0
        /\ (TimerFireTracked /\ activeConnect # 0)
             => UNCHANGED <<socketGeneration, activeConnect, sock>>]_vars

\* The handler of a logged-out close armed the timer while a connection
\* attempt is in flight: one timer is pending, and it will expire into that
\* attempt.
C23_Witness ==
  /\ timers = 1
  /\ reconnectTimer = 3000
  /\ activeConnect # 0
  /\ suspended = 0
  /\ ~shuttingDown

\* --------------------------------------------------------------------- C24
\* A close of the current connection, observed while not shutting down, that
\* is not a replaced-session close taking the counter over the ceiling.
C24_Close(code, now) ==
  /\ SocketClose(code, now)
  /\ sock = socketGeneration
  /\ ~shuttingDown
  /\ ~(code = Replaced /\ reconnectAttempts' > MAX_440_RETRIES)

\* C24: every such close arms the reconnect timer (the logged-out one as its
\* handler resumes, unless shutdown() ran in between); a generic close does so
\* whatever the counter is; and with every armed timer expiring, a closed
\* connection that did not stop the loop is followed by a new connection
\* attempt, unless shutdown() is called first.
C24_AlwaysReconnects ==
  /\ [][/\ \A code \in {Generic, Replaced}, now \in CloseTimes :
             C24_Close(code, now) => timers' = 1 /\ reconnectTimer' # 0 /\ ~halted'
        /\ \A now \in CloseTimes :
             C24_Close(LoggedOut, now) => suspended' = socketGeneration /\ ~halted'
        /\ (LoggedOutResume /\ ~shuttingDown)
             => timers' = 1 /\ reconnectTimer' # 0]_vars
  /\ \A g \in 1..(MaxGen - 1) :
       (sock = g /\ socketGeneration = g /\ phase = "closed" /\ ~halted /\ ~shuttingDown)
         ~> (socketGeneration > g \/ shuttingDown)

\* The eleventh generic close in a row: the counter is over the ceiling of
\* the replaced-session closes and the next attempt is scheduled all the same.
C24_Witness ==
  /\ reconnectAttempts = MAX_440_RETRIES + 1
  /\ reconnectTimer = 60000
  /\ timers = 1
  /\ phase = "closed"
  /\ ~halted
  /\ ~shuttingDown

\* --------------------------------------------------------------------- C25
\* The 'close' of a process whose hard timeout has fired.
C25_Step(p, code, stdout, stderr) ==
  LET r == procs[p].item
      c == procs[p].chatId
  IN (ProcClose(p, code, stdout, stderr) /\ procs[p].timedOut)
     => /\ items'[r].outcome = Rejected(TimeoutMsg)
        /\ items'[r].sessionRecoveryTried = items[r].sessionRecoveryTried
        /\ UNCHANGED <<sessions, disk, fileKind>>
        /\ IF queues[c] = <<>>
           THEN ~Spawned /\ ~busy'[c]
           ELSE /\ Spawned
                /\ NewProc.item = Head(queues[c])
                /\ NewProc.item # r
                /\ NewProc.st = "running"
                /\ queues'[c] = Tail(queues[c])
                /\ busy'[c]

\* C25: the hard timeout of a running process marks it timed out and kills
\* it, changing nothing else; the 'close' of a timed-out process, whatever its
\* exit code, output and stderr, rejects the request with the timeout error,
\* spawns no retry of it, leaves the session token and the session file as
\* they are, and starts the oldest queued request of the conversation, if any.
C25_TimeoutRejects ==
  [][/\ \A p \in DOMAIN procs :
          Timeout(p) => /\ procs'[p].timedOut
                        /\ UNCHANGED <<sessions, busy, queues, items>>
                        /\ ~Spawned
     /\ \A p \in DOMAIN procs, code \in ExitCodes, out \in Stdouts, err \in Stderrs :
          C25_Step(p, code, out, err)]_vars

\* A request was rejected with the timeout error while the conversation had a
\* token on file: the token is still there, the request was spawned once, and
\* the request queued behind it has been spawned.
C25_Witness ==
  \E r \in DOMAIN items :
    /\ items[r].outcome = Rejected(TimeoutMsg)
    /\ ~items[r].sessionRecoveryTried
    /\ Cardinality(SpawnsOf(r)) = 1
    /\ sessions[items[r].chatId] = "s1"
    /\ r + 1 \in DOMAIN items
    /\ SpawnsOf(r + 1) # {}

\* --------------------------------------------------------------------- C26
\* The lines of an output that parse as a record of type 'result'.
C26_ResultLines(out) ==
  {i \in DOMAIN out : JSONparse(out[i]).ok /\ JSONparse(out[i]).type = "result"}

C26_Last(out) ==
  CHOOSE i \in C26_ResultLines(out) : \A j \in C26_ResultLines(out) : j <= i

\* C26: for every output of up to MaxLines lines that a running process may
\* have printed when it exits with code 0: with a result record among its
\* lines, the reply text and the session token parsed are those of the last
\* such line, whatever precedes and follows it, and the 'close' handler
\* answers the request with that text and stores that token, if there is one;
\* without one, the output parses exactly when the whole trimmed output is
\* one record, and then with that record's token.
C26_LastMatchingWins ==
  \A p \in DOMAIN procs, out \in ParseStdouts :
    (procs[p].st = "running" /\ ~procs[p].timedOut)
      => IF C26_ResultLines(out) # {}
         THEN LET S == onClose(Cur, p, 0, out, "")
                  rec == JSONparse(out[C26_Last(out)])
              IN /\ parseOutput(out).ok
                 /\ parseOutput(out).result = rec.result
                 /\ parseOutput(out).session_id = rec.session_id
                 /\ S.items[procs[p].item].outcome = [st |-> "resolved", text |-> rec.result]
                 /\ S.sessions[procs[p].chatId] =
                      IF rec.session_id # "" THEN rec.session_id
                      ELSE sessions[procs[p].chatId]
         ELSE /\ parseOutput(out).ok = JSONparseAll(trimOut(out)).ok
              /\ parseOutput(out).session_id = JSONparseAll(trimOut(out)).session_id

\* The first request was answered "yo" and the token s2 is on file: the text
\* and the token of the last of the result records its process printed, not
\* of one before it, nor of the plain line after it.
C26_Witness ==
  /\ Len(items) >= 1
  /\ items[1].outcome = [st |-> "resolved", text |-> "yo"]
  /\ sessions[allowedJid] = "s2"
  /\ parseOutput(<<ResultLine1, ResultLine2, PlainLine>>).result = "yo"
  /\ parseOutput(<<PrettyOpen, PrettyClose>>).result = "hi"

\* --------------------------------------------------------------------- C27
\* C27: in every reachable state, a conversation with a request in its queue
\* is marked busy and has a process that was spawned and has not closed.
C27_QueueImpliesRunning ==
  \A c \in Chats :
    queues[c] # <<>> => busy[c] /\ Live(c) # {}

\* The first request is fulfilled, the second is running and the third waits
\* in the queue: the conversation is busy.
C27_Witness ==
  /\ Len(items) = 3
  /\ items[1].outcome.st # "pending"
  /\ queues[allowedJid] = <<3>>
  /\ busy[allowedJid]
  /\ \E p \in Live(allowedJid) : procs[p].item = 2

\* --------------------------------------------------------------------- C28
\* Process p is the re-execution of a request after the contention error.
C28_Retrying(p) ==
  /\ procs[p].st = "running"
  /\ items[procs[p].item].sessionRecoveryTried

\* C28: while the re-execution of a request runs, its conversation is marked
\* busy; a request submitted meanwhile is put in the queue; and no other
\* request of the conversation is spawned until the re-execution has closed.
C28_RetryKeepsOrder ==
  /\ [](\A p \in DOMAIN procs : C28_Retrying(p) => busy[procs[p].chatId])
  /\ [][\A p \in DOMAIN procs :
          (C28_Retrying(p) /\ procs'[p].st = "running")
            => /\ Len(items') > Len(items)
                    => queues'[procs[p].chatId] =
                         Append(queues[procs[p].chatId], Len(items'))
               /\ Spawned => NewProc.chatId # procs[p].chatId]_vars

====
